---- MODULE Spec2Model ----
(***************************************************************************)
(* A model of hybrid-lock (src/src/lib.rs): parking_lot::RwLock plus a     *)
(* version counter that the write guard's Drop increments, and the         *)
(* optimistic read protocol validated against that counter.                *)
(*                                                                         *)
(* Threads interleave at the granularity of the shared-memory accesses of  *)
(* the code: every lock operation, every version access and every access   *)
(* to one cell of the protected value is one step.  The protected value    *)
(* has two cells so that a read or a write of it is not atomic.            *)
(*                                                                         *)
(* The underlying lock is parking_lot's task-fair RwLock: write() first    *)
(* takes the exclusive bit, which is what is_locked_exclusive() reports    *)
(* and what makes new read() calls wait, and then waits for the shared     *)
(* holders to leave.                                                       *)
(***************************************************************************)
EXTENDS Integers, Naturals, FiniteSets, Sequences, TLC

\* ------------------------------------------------------------------ bounds
\* Total number of write() calls the threads make in one behaviour.
MaxWrites == 2
\* The threads sharing one HybridLock instance, by the calls they make, each
\* any number of times: write() (MaxWrites in all); read(); try_optimistic,
\* optimistic (whose fallback takes a second read guard) and the version-only
\* validation of the data_ptr() example.
Writers   == {"W1", "W2"}
Readers   == {"R1"}
Optimists == {"O1"}
Threads   == Writers \cup Readers \cup Optimists

VARIABLES
    writerBit,   \* rw_lock: an exclusive holder is present (what is_locked_exclusive reports)
    readers,     \* rw_lock: number of shared holders
    version,     \* HybridLock.version
    data,        \* the protected value T, a pair of cells
    pc,          \* where each thread stands in the call it is making
    mode,        \* the call each thread is making
    pre,         \* pre_version of the thread's attempt
    res,         \* what the thread's run of f has read so far
    ret,         \* the value the thread's call returns
    local,       \* a writer's local copy of the counter it increments
    snap,        \* history: the value as it stood at the first read step of f
    fClean,      \* history: no write guard was mid-section at the first read step of f
                 \*          and no mutation step happened between its read steps
    incSeen,     \* history: a version increment happened since the thread's pre-version read
    unlockSeen,  \* history: an exclusive unlock happened since the thread's pre-version read
    acquired,    \* history: blocking read acquisitions made inside the thread's call
    attempts,    \* history: optimistic attempts made inside the thread's call
    started,     \* history: number of write() calls made
    drops,       \* history: number of write guards fully dropped
    full,        \* history: number of write sections that completed their increment
    att,         \* history of the thread's optimistic attempt and of its runs of f
    lastSeen     \* history: the value the last finished guarded read observed, while
                 \*          no write() has been acquired since

vars == <<writerBit, readers, version, data, pc, mode, pre, res, ret, local,
          snap, fClean, incSeen, unlockSeen, acquired, attempts,
          started, drops, full, att, lastSeen>>

lockVars == <<writerBit, readers>>
histCall == <<acquired, attempts>>
histWin  == <<incSeen, unlockSeen>>
counters == <<started, drops, full>>
histNew  == <<att, lastSeen>>

\* ------------------------------------------------------------------ values
NoVal  == <<0, 0>>
NoRet  == <<"-", NoVal>>
None   == <<"None", NoVal>>
Some(r) == <<"Some", r>>

\* Positions at which a thread holds a live write guard (write() has returned
\* and the guard's destruction has not finished).
WriteHeld == {"w_held", "w_m1", "w_m2", "w_inc"}
\* Positions at which the guard is live and its Drop has not yet run.
WriteOpen == {"w_held", "w_m1", "w_m2"}
\* Positions at which a thread holds a live read guard.
ReadHeld  == {"r_f1", "r_f2", "r_rel"}
\* Positions inside a run of f without a lock, between its first and last read.
InF       == {"t_f2"}
\* Positions after the pre-version read and up to the post-version read.
InWindow  == {"t_f1", "t_f2", "t_chk2", "t_post"}

\* Positions of an optimistic attempt that has begun and not finished.
TrySteps == {"t_pre", "t_f1", "t_f2", "t_chk2", "t_post"}
\* Positions from the pre-version read up to the second holder check.
BeforeCheck2 == {"t_f1", "t_f2", "t_chk2"}

\* The history of a call that has not begun: whether the exclusive bit was set
\* (wActive), a write guard was live (gSeen), at some moment of the attempt;
\* whether a write guard finished its drop during the attempt (dropSeen);
\* whether a mutation step fell between the pre-version read and the second
\* check (mutSeen); how often f was invoked in the call (fCalls); and what the
\* first holder check found (firstHeld).
NoAtt == [wActive |-> FALSE, gSeen |-> FALSE, dropSeen |-> FALSE,
          mutSeen |-> FALSE, fCalls |-> 0, firstHeld |-> FALSE]

WriteLive(t) == pc[t] \in WriteHeld
ReadLive(t)  == pc[t] \in ReadHeld

\* ------------------------------------------------------------------ new()
Init ==
    /\ writerBit = FALSE
    /\ readers = 0
    /\ version = 0
    /\ data = <<0, 0>>
    /\ pc = [t \in Threads |-> "idle"]
    /\ mode = [t \in Threads |-> "-"]
    /\ pre = [t \in Threads |-> 0]
    /\ res = [t \in Threads |-> NoVal]
    /\ ret = [t \in Threads |-> NoRet]
    /\ local = [t \in Threads |-> 0]
    /\ snap = [t \in Threads |-> NoVal]
    /\ fClean = [t \in Threads |-> TRUE]
    /\ incSeen = [t \in Threads |-> FALSE]
    /\ unlockSeen = [t \in Threads |-> FALSE]
    /\ acquired = [t \in Threads |-> 0]
    /\ attempts = [t \in Threads |-> 0]
    /\ started = 0
    /\ drops = 0
    /\ full = 0
    /\ att = [t \in Threads |-> NoAtt]
    /\ lastSeen = NoRet

\* ------------------------------------------------------- the underlying lock
\* Mutant: the lock always reports an exclusive holder.
is_locked_exclusive_Always == TRUE

\* RwLock::is_locked_exclusive(): an exclusive holder is present.
is_locked_exclusive == writerBit

\* Mutant: write() takes the exclusive bit although a writer holds it.
CanLockExclusive_Always == TRUE

\* RwLock::write() can take the exclusive bit: no other exclusive holder.
CanLockExclusive == ~writerBit

\* Mutant: write() returns without waiting for the shared holders to leave.
ReadersGone_NoWait == TRUE

\* RwLock::write() returns once the shared holders have left.
ReadersGone == readers = 0

\* Mutant: read() does not wait for the exclusive holder to leave.
CanLockShared_Always == TRUE

\* RwLock::read() can proceed: no exclusive holder is present.
CanLockShared == ~writerBit

\* Mutant: a one-bit version counter.
FetchAdd_Narrow(v) == (v + 1) % 2

\* AtomicU64::fetch_add(1): the counter wraps at 2^64, far beyond MaxWrites.
FetchAdd(v) == v + 1

\* AtomicU64::load of the version, after the acquire fence.
current_version == version

\* ------------------------------------------------------------ history helpers
\* A write guard that has made some but not all of its mutation steps.
MidMutation(u) == pc[u] = "w_m1"

\* A mutation step spoils every unlocked run of f that is between its reads.
Spoil == [u \in Threads |-> fClean[u] /\ pc[u] \notin InF]

\* Event f is recorded for every attempt that stands at a position of S.
Mark(S, f) ==
    [u \in Threads |->
        IF pc[u] \in S /\ mode[u] \in {"try", "opt"}
          THEN [att[u] EXCEPT ![f] = TRUE]
          ELSE att[u]]

\* One more invocation of f in the call of t.
CountF(t) ==
    IF mode[t] \in {"try", "opt"}
      THEN [att EXCEPT ![t].fCalls = @ + 1]
      ELSE att

ResetCall(t) ==
    /\ mode' = [mode EXCEPT ![t] = "-"]
    /\ pre' = [pre EXCEPT ![t] = 0]
    /\ res' = [res EXCEPT ![t] = NoVal]
    /\ ret' = [ret EXCEPT ![t] = NoRet]
    /\ snap' = [snap EXCEPT ![t] = NoVal]
    /\ fClean' = [fClean EXCEPT ![t] = TRUE]
    /\ incSeen' = [incSeen EXCEPT ![t] = FALSE]
    /\ unlockSeen' = [unlockSeen EXCEPT ![t] = FALSE]
    /\ acquired' = [acquired EXCEPT ![t] = 0]
    /\ attempts' = [attempts EXCEPT ![t] = 0]
    /\ att' = [att EXCEPT ![t] = NoAtt]

\* ------------------------------------------------------------------ write()
\* write(), first half: the caller takes the lock's exclusive bit.
Write_Begin(t) ==
    /\ t \in Writers
    /\ pc[t] = "idle"
    /\ started < MaxWrites
    /\ CanLockExclusive
    /\ writerBit' = TRUE
    /\ pc' = [pc EXCEPT ![t] = "w_wait"]
    /\ mode' = [mode EXCEPT ![t] = "write"]
    /\ started' = started + 1
    /\ UNCHANGED <<readers, version, data, pre, res, ret, local, snap, fClean,
                   histWin, histCall, drops, full>>
    /\ att' = Mark(TrySteps, "wActive")
    /\ UNCHANGED lastSeen

\* write(), second half: it returns the guard once no shared holder is left.
Write_Acquire(t) ==
    /\ pc[t] = "w_wait"
    /\ ReadersGone
    /\ pc' = [pc EXCEPT ![t] = "w_held"]
    /\ UNCHANGED <<lockVars, version, data, mode, pre, res, ret, local, snap,
                   fClean, histWin, histCall, counters>>
    /\ att' = Mark(TrySteps, "gSeen")
    /\ lastSeen' = NoRet

\* Mutant: the version is published with the first mutation step.
Mutate1_Publish(t) ==
    /\ pc[t] = "w_held"
    /\ local' = [local EXCEPT ![t] = data[1] + 1]
    /\ data' = <<data[1] + 1, data[2]>>
    /\ pc' = [pc EXCEPT ![t] = "w_m1"]
    /\ fClean' = Spoil
    /\ version' = FetchAdd(version)
    /\ UNCHANGED <<lockVars, mode, pre, res, ret, snap,
                   histWin, histCall, counters>>
    /\ att' = Mark(BeforeCheck2, "mutSeen")
    /\ UNCHANGED lastSeen

\* The holder increments the counter through DerefMut: it reads the counter
\* and stores the new value into the first cell ...
Mutate1(t) ==
    /\ pc[t] = "w_held"
    /\ local' = [local EXCEPT ![t] = data[1] + 1]
    /\ data' = <<data[1] + 1, data[2]>>
    /\ pc' = [pc EXCEPT ![t] = "w_m1"]
    /\ fClean' = Spoil
    /\ UNCHANGED <<lockVars, version, mode, pre, res, ret, snap,
                   histWin, histCall, counters>>
    /\ att' = Mark(BeforeCheck2, "mutSeen")
    /\ UNCHANGED lastSeen

\* ... and then into the second cell.
Mutate2(t) ==
    /\ pc[t] = "w_m1"
    /\ data' = <<data[1], local[t]>>
    /\ pc' = [pc EXCEPT ![t] = "w_m2"]
    /\ fClean' = Spoil
    /\ full' = full + 1
    /\ UNCHANGED <<lockVars, version, mode, pre, res, ret, local, snap,
                   histWin, histCall, started, drops>>
    /\ att' = Mark(BeforeCheck2, "mutSeen")
    /\ UNCHANGED lastSeen

\* Mutant: the exclusive token is released by the time the version is incremented.
Drop_FetchAdd_ReleaseFirst(t) ==
    /\ pc[t] \in WriteOpen
    /\ writerBit' = FALSE
    /\ version' = FetchAdd(version)
    /\ pc' = [pc EXCEPT ![t] = "w_inc"]
    /\ incSeen' = [u \in Threads |-> incSeen[u] \/ pc[u] \in InWindow]
    /\ unlockSeen' = [u \in Threads |-> unlockSeen[u] \/ pc[u] \in InWindow]
    /\ UNCHANGED <<readers, data, mode, pre, res, ret, local, snap, fClean,
                   histCall, counters>>
    /\ UNCHANGED histNew

\* Mutant: the version is incremented only when the section ran to its end.
Drop_FetchAdd_OnlyOnSuccess(t) ==
    /\ pc[t] \in WriteOpen
    /\ version' = (IF pc[t] = "w_m2" THEN FetchAdd(version) ELSE version)
    /\ pc' = [pc EXCEPT ![t] = "w_inc"]
    /\ incSeen' = [u \in Threads |-> incSeen[u] \/ pc[u] \in InWindow]
    /\ UNCHANGED <<lockVars, data, mode, pre, res, ret, local, snap, fClean,
                   unlockSeen, histCall, counters>>
    /\ UNCHANGED histNew

\* Drop for HybridRwLockWriteGuard: the body of drop() runs first, on any exit
\* from the guard's scope (also before or in the middle of the mutation).
Drop_FetchAdd(t) ==
    /\ pc[t] \in WriteOpen
    /\ version' = FetchAdd(version)
    /\ pc' = [pc EXCEPT ![t] = "w_inc"]
    /\ incSeen' = [u \in Threads |-> incSeen[u] \/ pc[u] \in InWindow]
    /\ UNCHANGED <<lockVars, data, mode, pre, res, ret, local, snap, fClean,
                   unlockSeen, histCall, counters>>
    /\ UNCHANGED histNew

\* ... and then the fields are dropped: the RwLockWriteGuard unlocks.
Drop_Unlock(t) ==
    /\ pc[t] = "w_inc"
    /\ writerBit' = FALSE
    /\ pc' = [pc EXCEPT ![t] = "idle"]
    /\ mode' = [mode EXCEPT ![t] = "-"]
    /\ local' = [local EXCEPT ![t] = 0]
    /\ unlockSeen' = [u \in Threads |-> unlockSeen[u] \/ pc[u] \in InWindow]
    /\ drops' = drops + 1
    /\ UNCHANGED <<readers, version, data, pre, res, ret, snap, fClean,
                   incSeen, histCall, started, full>>
    /\ att' = Mark(TrySteps, "dropSeen")
    /\ UNCHANGED lastSeen

\* ------------------------------------------------------------------- read()
\* read(): blocks until no exclusive holder is present, then returns a guard.
Read_Acquire(t) ==
    /\ t \in Readers
    /\ pc[t] = "idle"
    /\ CanLockShared
    /\ readers' = readers + 1
    /\ pc' = [pc EXCEPT ![t] = "r_f1"]
    /\ mode' = [mode EXCEPT ![t] = "read"]
    /\ acquired' = [acquired EXCEPT ![t] = 1]
    /\ UNCHANGED <<writerBit, version, data, pre, res, ret, local, snap, fClean,
                   histWin, attempts, started, drops, full>>
    /\ UNCHANGED histNew

\* Reading the value through a read guard (Deref, or f in fallback): first cell,
Guard_Read1(t) ==
    /\ pc[t] = "r_f1"
    /\ res' = [res EXCEPT ![t] = <<data[1], 0>>]
    /\ snap' = [snap EXCEPT ![t] = data]
    /\ fClean' = [fClean EXCEPT ![t] = \A u \in Threads : ~MidMutation(u)]
    /\ pc' = [pc EXCEPT ![t] = "r_f2"]
    /\ UNCHANGED <<lockVars, version, data, mode, pre, ret, local,
                   histWin, histCall, counters>>
    /\ att' = CountF(t)
    /\ UNCHANGED lastSeen

\* ... second cell.
Guard_Read2(t) ==
    /\ pc[t] = "r_f2"
    /\ res' = [res EXCEPT ![t] = <<res[t][1], data[2]>>]
    /\ pc' = [pc EXCEPT ![t] = "r_rel"]
    /\ UNCHANGED <<lockVars, version, data, mode, pre, ret, local, snap, fClean,
                   histWin, histCall, counters>>
    /\ UNCHANGED histNew

\* The read guard goes out of scope: the shared access is released and the
\* call (read's caller, or fallback) has its result.
Read_Release(t) ==
    /\ pc[t] = "r_rel"
    /\ readers' = readers - 1
    /\ ret' = [ret EXCEPT ![t] = Some(res[t])]
    /\ pc' = [pc EXCEPT ![t] = "ret"]
    /\ UNCHANGED <<writerBit, version, data, mode, pre, res, local, snap, fClean,
                   histWin, histCall, counters>>
    /\ lastSeen' = Some(res[t])
    /\ UNCHANGED att

\* Mutant: optimistic() gives up instead of falling back.
AfterNone_NoFallback(t) == "ret"

\* ---------------------------------------------------------- try_optimistic()
\* Where a failed attempt goes: optimistic() falls back, try_optimistic returns.
AfterNone(t) == IF mode[t] = "opt" THEN "fb_acq" ELSE "ret"

\* Mutant: the check before f is left out.
Try_Check1_NoCheck(t, m) ==
    /\ t \in Optimists
    /\ pc[t] = "idle"
    /\ mode' = [mode EXCEPT ![t] = m]
    /\ attempts' = [attempts EXCEPT ![t] = 1]
    /\ IF FALSE
         THEN /\ pc' = [pc EXCEPT ![t] = IF m = "opt" THEN "fb_acq" ELSE "ret"]
              /\ ret' = [ret EXCEPT ![t] = IF m = "opt" THEN NoRet ELSE None]
         ELSE /\ pc' = [pc EXCEPT ![t] = "t_pre"]
              /\ ret' = ret
    /\ UNCHANGED <<lockVars, version, data, pre, res, local, snap, fClean,
                   histWin, acquired, started, drops, full>>
    /\ att' = [att EXCEPT ![t] =
                 [NoAtt EXCEPT !.wActive = writerBit,
                               !.gSeen = \E w \in Threads : WriteLive(w),
                               !.firstHeld = is_locked_exclusive]]
    /\ UNCHANGED lastSeen

\* The first is_locked_exclusive() check of an attempt that call m starts.
Try_Check1(t, m) ==
    /\ t \in Optimists
    /\ pc[t] = "idle"
    /\ mode' = [mode EXCEPT ![t] = m]
    /\ attempts' = [attempts EXCEPT ![t] = 1]
    /\ IF is_locked_exclusive
         THEN /\ pc' = [pc EXCEPT ![t] = IF m = "opt" THEN "fb_acq" ELSE "ret"]
              /\ ret' = [ret EXCEPT ![t] = IF m = "opt" THEN NoRet ELSE None]
         ELSE /\ pc' = [pc EXCEPT ![t] = "t_pre"]
              /\ ret' = ret
    /\ UNCHANGED <<lockVars, version, data, pre, res, local, snap, fClean,
                   histWin, acquired, started, drops, full>>
    /\ att' = [att EXCEPT ![t] =
                 [NoAtt EXCEPT !.wActive = writerBit,
                               !.gSeen = \E w \in Threads : WriteLive(w),
                               !.firstHeld = is_locked_exclusive]]
    /\ UNCHANGED lastSeen

\* Mutant: the attempt registers as a shared holder of the lock.
Try_Pre_Locks(t) ==
    /\ pc[t] = "t_pre"
    /\ pre' = [pre EXCEPT ![t] = current_version]
    /\ incSeen' = [incSeen EXCEPT ![t] = FALSE]
    /\ unlockSeen' = [unlockSeen EXCEPT ![t] = FALSE]
    /\ pc' = [pc EXCEPT ![t] = "t_f1"]
    /\ readers' = readers + 1
    /\ UNCHANGED <<writerBit, version, data, mode, res, ret, local, snap, fClean,
                   histCall, counters>>
    /\ UNCHANGED histNew

\* let pre_version = self.current_version();
Try_Pre(t) ==
    /\ pc[t] = "t_pre"
    /\ pre' = [pre EXCEPT ![t] = current_version]
    /\ incSeen' = [incSeen EXCEPT ![t] = FALSE]
    /\ unlockSeen' = [unlockSeen EXCEPT ![t] = FALSE]
    /\ pc' = [pc EXCEPT ![t] = "t_f1"]
    /\ UNCHANGED <<lockVars, version, data, mode, res, ret, local, snap, fClean,
                   histCall, counters>>
    /\ UNCHANGED histNew

\* f(data_ptr) without any lock: it reads the first cell,
F_Read1(t) ==
    /\ pc[t] = "t_f1"
    /\ res' = [res EXCEPT ![t] = <<data[1], 0>>]
    /\ snap' = [snap EXCEPT ![t] = data]
    /\ fClean' = [fClean EXCEPT ![t] = \A u \in Threads : ~MidMutation(u)]
    /\ pc' = [pc EXCEPT ![t] = "t_f2"]
    /\ UNCHANGED <<lockVars, version, data, mode, pre, ret, local,
                   histWin, histCall, counters>>
    /\ att' = CountF(t)
    /\ UNCHANGED lastSeen

\* ... then the second cell.
F_Read2(t) ==
    /\ pc[t] = "t_f2"
    /\ res' = [res EXCEPT ![t] = <<res[t][1], data[2]>>]
    /\ pc' = [pc EXCEPT ![t] = IF mode[t] = "cv" THEN "t_post" ELSE "t_chk2"]
    /\ UNCHANGED <<lockVars, version, data, mode, pre, ret, local, snap, fClean,
                   histWin, histCall, counters>>
    /\ UNCHANGED histNew

\* Mutant: the check after f is left out.
Try_Check2_NoCheck(t) ==
    /\ pc[t] = "t_chk2"
    /\ pc' = [pc EXCEPT ![t] = "t_post"]
    /\ UNCHANGED <<lockVars, version, data, mode, pre, res, ret, local, snap, fClean,
                   histWin, histCall, counters>>
    /\ UNCHANGED histNew

\* Mutant: the check after f waits for the exclusive holder to leave.
Try_Check2_Wait(t) ==
    /\ pc[t] = "t_chk2"
    /\ ~is_locked_exclusive
    /\ pc' = [pc EXCEPT ![t] = "t_post"]
    /\ UNCHANGED <<lockVars, version, data, mode, pre, res, ret, local, snap, fClean,
                   histWin, histCall, counters>>
    /\ UNCHANGED histNew

\* The second is_locked_exclusive() check, after f.
Try_Check2(t) ==
    /\ pc[t] = "t_chk2"
    /\ IF is_locked_exclusive
         THEN /\ pc' = [pc EXCEPT ![t] = AfterNone(t)]
              /\ ret' = [ret EXCEPT ![t] = IF mode[t] = "opt" THEN NoRet ELSE None]
         ELSE /\ pc' = [pc EXCEPT ![t] = "t_post"]
              /\ ret' = ret
    /\ UNCHANGED <<lockVars, version, data, mode, pre, res, local, snap, fClean,
                   histWin, histCall, counters>>
    /\ UNCHANGED histNew

\* Mutant: the result is trusted without comparing the versions.
Try_Post_NoCompare(t) ==
    /\ pc[t] = "t_post"
    /\ pc' = [pc EXCEPT ![t] = "ret"]
    /\ ret' = [ret EXCEPT ![t] = Some(res[t])]
    /\ UNCHANGED <<lockVars, version, data, mode, pre, res, local, snap, fClean,
                   histWin, histCall, counters>>
    /\ UNCHANGED histNew

\* let post_version = self.current_version(); Some(result) iff pre == post.
Try_Post(t) ==
    /\ pc[t] = "t_post"
    /\ IF pre[t] = current_version
         THEN /\ pc' = [pc EXCEPT ![t] = "ret"]
              /\ ret' = [ret EXCEPT ![t] = Some(res[t])]
         ELSE /\ pc' = [pc EXCEPT ![t] = AfterNone(t)]
              /\ ret' = [ret EXCEPT ![t] = IF mode[t] = "opt" THEN NoRet ELSE None]
    /\ UNCHANGED <<lockVars, version, data, mode, pre, res, local, snap, fClean,
                   histWin, histCall, counters>>
    /\ UNCHANGED histNew

\* -------------------------------------------------------------- optimistic()
\* Mutant: fallback runs f without waiting for the exclusive holder to leave.
Fallback_Read_NoWait(t) ==
    /\ pc[t] = "fb_acq"
    /\ readers' = readers + 1
    /\ acquired' = [acquired EXCEPT ![t] = acquired[t] + 1]
    /\ res' = [res EXCEPT ![t] = NoVal]
    /\ snap' = [snap EXCEPT ![t] = NoVal]
    /\ fClean' = [fClean EXCEPT ![t] = TRUE]
    /\ pc' = [pc EXCEPT ![t] = "r_f1"]
    /\ UNCHANGED <<writerBit, version, data, mode, pre, ret, local,
                   histWin, attempts, counters>>
    /\ UNCHANGED histNew

\* fallback(): let guard = self.read(); then f runs under the guard.
Fallback_Read(t) ==
    /\ pc[t] = "fb_acq"
    /\ CanLockShared
    /\ readers' = readers + 1
    /\ acquired' = [acquired EXCEPT ![t] = acquired[t] + 1]
    /\ res' = [res EXCEPT ![t] = NoVal]
    /\ snap' = [snap EXCEPT ![t] = NoVal]
    /\ fClean' = [fClean EXCEPT ![t] = TRUE]
    /\ pc' = [pc EXCEPT ![t] = "r_f1"]
    /\ UNCHANGED <<writerBit, version, data, mode, pre, ret, local,
                   histWin, attempts, counters>>
    /\ UNCHANGED histNew

\* ----------------------------------- the data_ptr() / current_version() example
\* let pre_version = a.current_version();   (no holder check, no lock)
Cv_Pre(t) ==
    /\ t \in Optimists
    /\ pc[t] = "idle"
    /\ mode' = [mode EXCEPT ![t] = "cv"]
    /\ pre' = [pre EXCEPT ![t] = current_version]
    /\ pc' = [pc EXCEPT ![t] = "t_f1"]
    /\ UNCHANGED <<lockVars, version, data, res, ret, local, snap, fClean,
                   histWin, histCall, started, drops, full>>
    /\ UNCHANGED histNew

\* ------------------------------------------------------------------- return
\* The call returns to its caller; the thread is free to make another call.
Return(t) ==
    /\ pc[t] = "ret"
    /\ pc' = [pc EXCEPT ![t] = "idle"]
    /\ ResetCall(t)
    /\ UNCHANGED <<lockVars, version, data, local, counters>>
    /\ UNCHANGED lastSeen

\* ------------------------------------------------------------ specification
Next ==
    \E t \in Threads :
        \/ Write_Begin(t)
        \/ Write_Acquire(t)
        \/ Mutate1(t)
        \/ Mutate2(t)
        \/ Drop_FetchAdd(t)
        \/ Drop_Unlock(t)
        \/ Read_Acquire(t)
        \/ Guard_Read1(t)
        \/ Guard_Read2(t)
        \/ Read_Release(t)
        \/ Try_Check1(t, "try")
        \/ Try_Check1(t, "opt")
        \/ Try_Pre(t)
        \/ F_Read1(t)
        \/ F_Read2(t)
        \/ Try_Check2(t)
        \/ Try_Post(t)
        \/ Fallback_Read(t)
        \/ Cv_Pre(t)
        \/ Return(t)

Spec == Init /\ [][Next]_vars

\* ------------------------------------------------------------------ fairness
\* The steps a thread takes inside a call once the call has begun, other than
\* blocking for shared access and ending the scope of a read() guard.
Step(t) ==
    \/ Write_Acquire(t)
    \/ Mutate1(t)
    \/ Mutate2(t)
    \/ Drop_FetchAdd(t)
    \/ Drop_Unlock(t)
    \/ Guard_Read1(t)
    \/ Guard_Read2(t)
    \/ Try_Pre(t)
    \/ F_Read1(t)
    \/ F_Read2(t)
    \/ Try_Check2(t)
    \/ Try_Post(t)
    \/ Return(t)

\* Every thread inside a call keeps running (f and the write sections
\* terminate, write guards are dropped), the lock grants shared access to a
\* caller that can be served again and again, and fallback's guard is dropped
\* when f returns.  How long the caller of read() keeps its guard is up to it.
Fairness ==
    /\ \A t \in Threads : WF_vars(Step(t))
    /\ \A t \in Optimists : SF_vars(Fallback_Read(t))
    /\ \A t \in Optimists : WF_vars(Read_Release(t))

FairSpec == Init /\ [][Next]_vars /\ Fairness

\* -------------------------------------------------------------------- claims
\* A call of try_optimistic, or the fast path of optimistic, has returned Some.
ReturnedSome(t) ==
    /\ pc[t] = "ret"
    /\ mode[t] \in {"try", "opt"}
    /\ acquired[t] = 0
    /\ ret[t][1] = "Some"

\* C1: optimistic soundness. Whenever try_optimistic returns Some(r), no
\* mutation step of any writer happened between the first and the last read
\* step of f and no write guard was mid-mutation at the first one, so r is the
\* value as it stood at that single instant: a torn value is never returned.
C1_OptimisticSoundness ==
    \A t \in Optimists :
        ReturnedSome(t) => fClean[t] /\ ret[t][2] = snap[t]

\* C1 witness: Some(<<1, 1>>) is returned while another write section is open.
C1_Witness ==
    \E t \in Optimists :
        /\ ReturnedSome(t)
        /\ ret[t][2] = <<1, 1>>
        /\ \E w \in Writers : pc[w] \in WriteOpen

\* C2: mutual exclusion. At most one write guard is live, and no write guard
\* is live together with a read guard (of read() or of fallback).
C2_MutualExclusion ==
    /\ Cardinality({t \in Threads : WriteLive(t)}) <= 1
    /\ (\E t \in Threads : WriteLive(t)) => (\A u \in Threads : ~ReadLive(u))
    /\ readers = Cardinality({t \in Threads : ReadLive(t)})

\* C2 witness: two read guards are live and a write() is blocked behind them.
C2_Witness ==
    /\ Cardinality({t \in Threads : ReadLive(t)}) = 2
    /\ \E w \in Writers : pc[w] = "w_wait"

\* No write guard is live or being dropped.
NoWriteGuard == \A t \in Threads : ~WriteLive(t)

\* C3: the version counts the completed write sections. Whenever no write guard
\* is live or being dropped the version equals the number of guards dropped;
\* once all the writers that each incremented the counter once have dropped
\* their guards, the counter and the version both equal their number.
C3_VersionCountsWrites ==
    /\ NoWriteGuard => version = drops
    /\ (NoWriteGuard /\ started = drops /\ full = drops) =>
           data = <<drops, drops>> /\ version = drops

\* C3 witness: two writers have each incremented the counter and are done.
C3_Witness ==
    /\ NoWriteGuard
    /\ started = 2 /\ drops = 2 /\ full = 2
    /\ \A w \in Writers : pc[w] = "idle"

\* The version-only validation of the data_ptr() example found pre == post.
Validated(t) ==
    /\ pc[t] = "ret"
    /\ mode[t] = "cv"
    /\ ret[t][1] = "Some"

\* C4: version-only validation. If the two current_version() reads around an
\* unlocked read of the value agree, no write guard was mutating the value
\* during the read, so the value read is not torn.
C4_VersionOnlyValidation ==
    \A t \in Optimists :
        Validated(t) => fClean[t] /\ ret[t][2] = snap[t]

\* C5 as stated: the version is incremented after the guard's exclusive token
\* has been released, never while the lock is still exclusively held by it.
C5_IncrementAfterRelease ==
    [][\A t \in Writers :
          (pc[t] \in WriteOpen /\ pc'[t] = "w_inc") => ~writerBit]_vars

\* C5 amended: dropping a write guard first increments the version, while the
\* lock is still exclusively held by the guard, and releases the exclusive
\* access as the last step, without touching the version again.
C5_IncrementThenRelease ==
    [][\A t \in Writers :
          /\ (pc[t] \in WriteOpen /\ pc'[t] # pc[t]
                /\ pc'[t] \notin WriteOpen) =>
                 /\ pc'[t] = "w_inc"
                 /\ version' = version + 1
                 /\ writerBit /\ writerBit'
          /\ (pc[t] = "w_inc" /\ pc'[t] # "w_inc") =>
                 /\ version' = version
                 /\ writerBit /\ ~writerBit']_vars

\* C5 witness: a guard's increment is done and its lock is still held.
C5_Witness ==
    \E t \in Writers :
        pc[t] = "w_inc" /\ writerBit /\ version = drops + 1

\* C6 as stated: when try_optimistic returns Some, neither a version increment
\* nor an exclusive unlock happened between its pre- and post-version reads.
C6_NoReleaseInWindow ==
    \A t \in Optimists :
        ReturnedSome(t) => ~incSeen[t] /\ ~unlockSeen[t]

\* C6 amended: when try_optimistic returns Some, no write guard's version
\* increment happened strictly between its pre- and post-version reads (the
\* unlock of a guard that incremented before the pre-version read may).
C6_NoIncrementInWindow ==
    \A t \in Optimists :
        ReturnedSome(t) => ~incSeen[t]

\* C6 witness: Some is returned although a guard unlocked inside the window.
C6_Witness ==
    \E t \in Optimists :
        ReturnedSome(t) /\ unlockSeen[t] /\ ret[t][2] = <<1, 1>>

\* Positions of the fallback path of optimistic().
FallbackSteps == {"fb_acq", "r_f1", "r_f2", "r_rel"}

\* A call of optimistic() is in progress or has its result.
InOptimistic(t) == mode[t] = "opt"

\* optimistic() has returned.
OptimisticDone(t) == pc[t] = "ret" /\ mode[t] = "opt"

\* A read() caller that never lets go of its guard.
KeepsReadGuard(r) == <>[](pc[r] = "r_rel")

\* What every finished call of optimistic() looks like: it has a result and
\* made one optimistic attempt and at most one blocking read acquisition; and
\* a call on the fallback path has made exactly one once it holds the guard.
OneAttemptOneFallback ==
    \A t \in Optimists :
        /\ OptimisticDone(t) =>
                /\ ret[t][1] = "Some"
                /\ attempts[t] = 1
                /\ acquired[t] \in {0, 1}
        /\ (InOptimistic(t) /\ pc[t] \in FallbackSteps) =>
                acquired[t] = (IF pc[t] = "fb_acq" THEN 0 ELSE 1)

\* The fallback path leads to the return and never back into an attempt.
NoRetry ==
    \A t \in Optimists :
        (InOptimistic(t) /\ pc[t] \in FallbackSteps /\ pc'[t] # pc[t]) =>
            /\ pc'[t] \in FallbackSteps \cup {"ret"}
            /\ pc[t] = "r_rel" => (pc'[t] = "ret" /\ acquired'[t] = 1)

\* C7 as stated: with fair scheduling, write guards that are always dropped
\* and an f that terminates, every call of optimistic() returns.
C7_FallbackLiveness ==
    \A t \in Optimists : InOptimistic(t) ~> OptimisticDone(t)

\* C7 amended: with fair scheduling, an f that terminates and every guard that
\* is acquired, write or read, eventually dropped, every call of optimistic()
\* returns a result; it makes one attempt and, when that fails, returns after
\* exactly one blocking read acquisition.
C7_FallbackLivenessAllGuardsDropped ==
    /\ []OneAttemptOneFallback
    /\ [][NoRetry]_vars
    /\ (\A r \in Readers : ~KeepsReadGuard(r)) =>
           (\A t \in Optimists : InOptimistic(t) ~> OptimisticDone(t))

\* C7 witness: optimistic() has returned through the fallback path.
C7_Witness ==
    \E t \in Optimists :
        OptimisticDone(t) /\ acquired[t] = 1 /\ ret[t][2] = <<1, 1>>

\* How many of its own steps an attempt at a position has left at most.
StepsLeft(p) ==
    CASE p = "t_pre"  -> 5
      [] p = "t_f1"   -> 4
      [] p = "t_f2"   -> 3
      [] p = "t_chk2" -> 2
      [] p = "t_post" -> 1
      [] OTHER        -> 0

\* The next step of the attempt thread t is making.
AttemptStep(t) ==
    \/ Try_Pre(t)
    \/ F_Read1(t)
    \/ F_Read2(t)
    \/ Try_Check2(t)
    \/ Try_Post(t)

\* C8: try_optimistic never blocks. Whatever the state of the lock, the next
\* step of an attempt in progress is enabled, a call can always begin, and
\* every step brings the attempt strictly closer to its end.
C8_NeverBlocks ==
    /\ [](\A t \in Optimists :
            /\ (pc[t] \in TrySteps /\ mode[t] \in {"try", "opt"}) =>
                   ENABLED AttemptStep(t)
            /\ pc[t] = "idle" => ENABLED Try_Check1(t, "try"))
    /\ [][\A t \in Optimists :
            (pc[t] \in TrySteps /\ pc'[t] # pc[t]) =>
                StepsLeft(pc'[t]) < StepsLeft(pc[t])]_vars

\* C8 witness: an attempt stands at its second check while a writer that took
\* the exclusive bit waits for a read guard to be released.
C8_Witness ==
    \E t \in Optimists :
        /\ pc[t] = "t_chk2" /\ mode[t] = "try"
        /\ writerBit /\ readers > 0
        /\ \E w \in Writers : pc[w] = "w_wait"

\* C9: the version never changes while a read guard is live, and acquiring or
\* releasing a read guard does not change it.
C9_VersionFixedUnderReadGuard ==
    [][\A t \in Threads :
          (ReadLive(t) \/ ReadLive(t)') => version' = version]_vars

\* C9 witness: a read guard is live after one write section, and the next
\* writer is waiting for it.
C9_Witness ==
    \E r \in Readers :
        /\ ReadLive(r)
        /\ version = 1
        /\ \E w \in Writers : pc[w] = "w_wait"

AttemptOver(t) ==
    /\ mode[t] \in {"try", "opt"}
    /\ pc[t] \in FallbackSteps \cup {"ret"}

\* C11 as stated: no spurious failure. If no write guard is live at any moment
\* of an attempt (none at its start, none acquired, none dropped), the attempt
\* returns Some and optimistic returns through the fast path.
C11_NoSpuriousFailure ==
    \A t \in Optimists :
        (AttemptOver(t) /\ ~att[t].gSeen) => ReturnedSome(t)

\* C11 amended: if no write() call holds or waits for the lock at the start of
\* an attempt and none begins before the attempt ends, the attempt returns
\* Some of the current value and optimistic returns it through the fast path,
\* without acquiring the lock.
C11_NoFailureWithoutWriteCall ==
    \A t \in Optimists :
        (AttemptOver(t) /\ ~att[t].wActive) =>
            /\ ReturnedSome(t)
            /\ ret[t][2] = snap[t]
            /\ fClean[t]
            /\ att[t].fCalls = 1

\* C11 witness: after one write section, with no write() call around, optimistic
\* returns Some(<<1, 1>>) through the fast path.
C11_Witness ==
    \E t \in Optimists :
        /\ ReturnedSome(t) /\ mode[t] = "opt"
        /\ ~att[t].wActive
        /\ version = 1 /\ ret[t][2] = <<1, 1>>

\* C12 as stated: when the final comparison finds pre == post, no write guard
\* finished being dropped between the attempt's first holder check and its
\* post-version read.
C12_NoSectionCompletedInWindow ==
    \A t \in Optimists :
        ReturnedSome(t) => ~att[t].dropSeen

\* C12 amended: when the final comparison finds pre == post, no write section
\* published a change inside the attempt: no version increment fell between
\* the pre- and the post-version read and no mutation step between the
\* pre-version read and the second holder check (a section may run to its end
\* between the first holder check and the pre-version read).
C12_NoPublishedChangeInWindow ==
    \A t \in Optimists :
        ReturnedSome(t) => ~incSeen[t] /\ ~att[t].mutSeen

\* C12 witness: Some is returned although a whole write section ran and was
\* dropped between the first holder check and the pre-version read.
C12_Witness ==
    \E t \in Optimists :
        /\ ReturnedSome(t)
        /\ att[t].dropSeen /\ ~unlockSeen[t] /\ ~att[t].firstHeld
        /\ pre[t] = 1 /\ ret[t][2] = <<1, 1>>

\* The guards whose drop() body has run and whose lock is not released yet.
Dropping == {t \in Threads : pc[t] = "w_inc"}

\* C13 as stated: the increment is atomic with the release. In no state does
\* the version count a guard that still holds the lock, and in no state has
\* the lock been released by a guard the version does not count.
C13_AtomicRelease ==
    /\ \A t \in Writers : WriteLive(t) => version = drops
    /\ NoWriteGuard => version = drops

\* C13 amended: the increment precedes the release. There is an intermediate
\* state, which other threads can observe, in which the version counts a guard
\* that still holds the lock; there is none in which the lock has been
\* released by a guard the version does not count.
C13_IncrementBeforeRelease ==
    /\ version = drops + Cardinality(Dropping)
    /\ Cardinality(Dropping) <= 1
    /\ \A t \in Dropping : writerBit
    /\ ~writerBit => version = drops

\* C13 witness: an attempt has read a version that counts a guard which still
\* holds the lock.
C13_Witness ==
    \E t \in Optimists :
        /\ pc[t] \in InWindow
        /\ Dropping # {}
        /\ pre[t] = drops + 1

\* The call has started f a second time, in fallback, under its read guard.
FallbackRan(t) ==
    \/ pc[t] \in {"r_f2", "r_rel"}
    \/ pc[t] = "ret" /\ acquired[t] = 1

\* How many times the optimistic attempt of the call has invoked f.
AttemptFCalls(t) == att[t].fCalls - (IF FallbackRan(t) THEN 1 ELSE 0)

\* C14: an attempt whose first check found an exclusive holder is over at once
\* with None (try_optimistic has returned None, optimistic is in fallback) and
\* never invoked f; an attempt whose first check found none invokes f exactly
\* once: not before the pre-version read, once from then on.
C14_FirstCheckGuardsF ==
    \A t \in Optimists :
        mode[t] \in {"try", "opt"} =>
            /\ att[t].firstHeld =>
                   /\ AttemptOver(t)
                   /\ AttemptFCalls(t) = 0
                   /\ mode[t] = "try" => (pc[t] = "ret" /\ ret[t] = None)
            /\ ~att[t].firstHeld =>
                   AttemptFCalls(t) = (IF pc[t] \in {"t_pre", "t_f1"} THEN 0 ELSE 1)

\* C14 witness: try_optimistic returned None from its first check, f not run.
C14_Witness ==
    \E t \in Optimists :
        /\ pc[t] = "ret" /\ mode[t] = "try"
        /\ att[t].firstHeld
        /\ ret[t] = None
        /\ att[t].fCalls = 0

\* A write guard exists.
WriteGuardLive == \E w \in Writers : WriteLive(w)

\* A holder check of t's attempt (the first one, from idle, or the second one,
\* after f) is taken in this step.
HolderCheck(t) ==
    /\ pc[t] \in {"idle", "t_chk2"}
    /\ pc'[t] # pc[t]
    /\ mode'[t] \in {"try", "opt"}

\* C15: a holder check taken while a write guard is live ends the attempt with
\* None, whatever the versions are: try_optimistic returns None, optimistic
\* goes to its fallback. The post-version read is not reached.
C15_HolderCheckFails ==
    [][\A t \in Optimists :
          (HolderCheck(t) /\ WriteGuardLive) =>
              /\ pc'[t] = (IF mode'[t] = "opt" THEN "fb_acq" ELSE "ret")
              /\ mode'[t] = "try" => ret'[t] = None]_vars

\* C15 witness: try_optimistic passed its first check, ran f, and returned
\* None from the second check although the version still equals pre.
C15_Witness ==
    \E t \in Optimists :
        /\ pc[t] = "ret" /\ mode[t] = "try"
        /\ ret[t] = None
        /\ ~att[t].firstHeld /\ att[t].fCalls = 1
        /\ ~incSeen[t] /\ version = pre[t]
        /\ \E w \in Writers : pc[w] \in WriteOpen

\* C16: a call of optimistic makes one attempt and at most one blocking
\* acquisition and invokes f at most twice; the second invocation runs under
\* the read guard with no write guard live and reads the current value whole;
\* a call that fell back returns that second result, its guard released.
C16_OneAttemptOneFallback ==
    \A t \in Optimists :
        mode[t] = "opt" =>
            /\ attempts[t] = 1
            /\ acquired[t] \in {0, 1}
            /\ att[t].fCalls <= 2
            /\ att[t].fCalls = 2 => FallbackRan(t)
            /\ pc[t] \in ReadHeld =>
                   /\ acquired[t] = 1
                   /\ readers >= 1
                   /\ ~WriteGuardLive
            /\ pc[t] \in {"r_f2", "r_rel"} => (snap[t] = data /\ fClean[t])
            /\ pc[t] = "r_rel" => res[t] = data
            /\ (pc[t] = "ret" /\ acquired[t] = 1) =>
                   /\ ret[t] = Some(snap[t])
                   /\ fClean[t]
                   /\ readers = Cardinality({r \in Threads : ReadLive(r)})

\* C16 witness: optimistic has returned the result of its second invocation of
\* f, made in fallback after a failed attempt that had run f once.
C16_Witness ==
    \E t \in Optimists :
        /\ OptimisticDone(t)
        /\ acquired[t] = 1
        /\ att[t].fCalls = 2
        /\ ret[t] = Some(<<1, 1>>)
        /\ ~ReadLive(t)

\* The write() calls the version does not count yet: waiting for the lock, or
\* holding a guard whose drop() has not run.
Uncounted == {w \in Writers : pc[w] \in {"w_wait"} \cup WriteOpen}

\* Every change of the protected value is a mutation step of a guard the
\* version does not count, and that step leaves the version alone.
MutationBeforeIncrement ==
    data' # data =>
        /\ version' = version
        /\ \E w \in Uncounted : pc[w] \in {"w_held", "w_m1"} /\ pc'[w] \in WriteOpen
        /\ \A w \in Writers : pc[w] = "w_inc" => pc'[w] = "w_inc"

\* C17: publication order. The version counts exactly the write sections that
\* are past their mutation steps, every mutation step belongs to a section the
\* version does not count yet, and a reader that reads after a release (under
\* a read guard, or validated by the version) has the value with every write
\* of the counted sections in it.
C17_PublicationOrder ==
    /\ [](version = started - Cardinality(Uncounted))
    /\ [][MutationBeforeIncrement]_vars
    /\ [](\A t \in Threads :
             /\ pc[t] = "r_rel" => (res[t] = data /\ version = drops)
             /\ ReturnedSome(t) => (ret[t][2] = snap[t] /\ pre[t] <= version))

\* C17 witness: an attempt that read version 1 after the first guard's release
\* has read both cells written through that guard.
C17_Witness ==
    \E t \in Optimists :
        /\ pc[t] = "t_chk2" /\ mode[t] = "try"
        /\ pre[t] = 1 /\ drops = 1 /\ ~unlockSeen[t]
        /\ full = 1 /\ res[t] = <<1, 1>>

\* No write() call is in progress.
WritersIdle == \A w \in Writers : pc[w] = "idle"

\* A guard's scope is left, from any point of it, through drop(): one
\* increment with the lock still held, then the release, nothing in between.
ExitThroughDrop ==
    \A w \in Writers :
        /\ (pc[w] \in WriteOpen /\ pc'[w] \notin WriteOpen) =>
               /\ pc'[w] = "w_inc"
               /\ version' = version + 1
               /\ writerBit'
        /\ (pc[w] = "w_inc" /\ pc'[w] # "w_inc") =>
               /\ pc'[w] = "idle"
               /\ version' = version
               /\ ~writerBit'

\* C18: the increment runs on every exit path. However the write sections
\* ended (after the whole mutation, before it, or in the middle of it), once
\* no write() call is in progress the lock is not exclusively held and the
\* version equals the number of write guards that existed.
C18_IncrementOnEveryExit ==
    /\ [](WritersIdle => (~writerBit /\ version = started /\ drops = started))
    /\ [][ExitThroughDrop]_vars

\* C18 witness: two guards were dropped before the end of their mutation, one
\* of them in the middle of it; the lock is free and the version is 2.
C18_Witness ==
    /\ WritersIdle
    /\ started = 2 /\ full = 0
    /\ data[1] # data[2]
    /\ version = 2 /\ ~writerBit

\* The value changes only in a step of a thread that holds a write guard, and
\* no step of a reading thread changes it.
OnlyWritersMutate ==
    /\ data' # data => \E w \in Writers : WriteLive(w) /\ pc'[w] # pc[w]
    /\ \A t \in Readers \cup Optimists : pc'[t] # pc[t] => data' = data

\* C19: idempotence of reads. A value read under a read guard is the protected
\* value, and it equals the value of the previous read guard whenever no
\* write() was acquired since that guard's release; the value changes only
\* through a live write guard and no reading operation changes it.
C19_ReadsIdempotent ==
    /\ [](\A t \in Threads :
             pc[t] = "r_rel" =>
                 /\ res[t] = data
                 /\ lastSeen # NoRet => res[t] = lastSeen[2])
    /\ [][OnlyWritersMutate]_vars

\* C19 witness: a second read, with no write() acquired since the first one
\* was released, has read the same value <<1, 1>>.
C19_Witness ==
    \E t \in Readers :
        /\ pc[t] = "r_rel"
        /\ lastSeen = Some(<<1, 1>>)
        /\ res[t] = <<1, 1>>

\* A step of an optimistic attempt of t: from the call's first check to the
\* point where the attempt is over.
ObserverStep(t) ==
    /\ t \in Optimists
    /\ pc'[t] # pc[t]
    /\ \/ pc[t] \in TrySteps
       \/ pc[t] = "idle"

====
